---- MODULE Spec2Model ----
(***************************************************************************)
(* Model of the generative core of the scenery demos: the height           *)
(* functions, the terrain and vegetation passes, the recursive tree        *)
(* generators with their season logic, and the flight tick.                *)
(*                                                                         *)
(* Programs (one source file each):                                        *)
(*   "bird"       src/unnamed/part_004   terrain, trees, Bird.update       *)
(*   "condor"     src/unnamed/part_003   terrain, forest, condor tick      *)
(*   "bariloche"  src/unnamed/part_000   terrain, forest, createTwistedBranch *)
(*   "patagonia"  src/unnamed/part_002   (lines 1-212) createBranch        *)
(*   "seasons002" src/unnamed/part_002   (lines 213-614) buildTree         *)
(*   "seasons001" src/unnamed/part_001   buildTree / generateBranch        *)
(*   "main"       src/src/main.ts        buildTree / createOrganicBranch   *)
(*                                                                         *)
(* Numbers.  The source computes in IEEE doubles; the model computes in    *)
(* fixed point.  Lengths, elevations and speeds are in thousandths of a    *)
(* world unit, angles in milliradians, Math.random() draws and sines in    *)
(* thousandths.  Products are ordered so that every intermediate value     *)
(* stays inside TLC's 32-bit integers.                                     *)
(***************************************************************************)
EXTENDS Integers, Sequences, FiniteSets, TLC

(***************************************************************************)
(* Arithmetic helpers                                                      *)
(***************************************************************************)

\* Real division as the source's doubles perform it, truncated toward zero.
Div(a, b) == IF a >= 0 THEN a \div b ELSE -((-a) \div b)

Abs(a) == IF a < 0 THEN -a ELSE a

Max(a, b) == IF a >= b THEN a ELSE b

\* Math.sin on [0, pi], in thousandths (Bhaskara's rational approximation:
\* sin r = 4p / (5 pi^2 - p) with p = 4 r (pi - r)); exact at 0, pi/6, pi/2.
SinHalf(r) ==
    LET p == (2 * r) * (6283 - 2 * r)
    IN  IF p <= 0 THEN 0 ELSE (125 * p) \div ((49348022 - p) \div 32)

\* Math.sin of an angle in milliradians, in thousandths (2*pi = 6283 mrad).
Sin(a) ==
    LET r == a % 6283
    IN  IF r < 3142 THEN SinHalf(r) ELSE -SinHalf(r - 3142)

\* Math.cos of an angle in milliradians, in thousandths.
Cos(a) == Sin(a + 1571)

RECURSIVE SqrtSearch(_, _, _)
SqrtSearch(n, lo, hi) ==
    IF lo >= hi THEN lo
    ELSE LET mid == (lo + hi + 1) \div 2
         IN  IF mid * mid <= n THEN SqrtSearch(n, mid, hi)
             ELSE SqrtSearch(n, lo, mid - 1)

\* Math.sqrt, rounded down to an integer.
Sqrt(n) == SqrtSearch(n, 0, 46340)

\* Math.sqrt(x*x + z*z) for x, z in thousandths, in tenths of a unit.
Dist(x, z) == Sqrt(Div(x, 100) * Div(x, 100) + Div(z, 100) * Div(z, 100))

\* A lerp that steps past b: t = 1 + tn/td.
LerpPast(a, b, tn, td) == a + Div((b - a) * (td + tn), td)

\* THREE.MathUtils.lerp(a, b, t) with t = tn/td.
Lerp(a, b, tn, td) == a + Div((b - a) * tn, td)

(***************************************************************************)
(* Height functions.  x and z are world coordinates in thousandths of a    *)
(* unit; the result is an elevation in thousandths of a unit.              *)
(***************************************************************************)

\* fbm with the amplitude left at 1 in every octave (the "amplitude *= 0.5"
\* steps dropped).
fbmNoDecay(x, z) ==
      Div(Sin(Div(x, 500)) * Cos(Div(z, 500)) * 120, 1000)
    + Div(Sin(Div(x, 250) + 1200) * Cos(Div(z, 250) + 1200) * 120, 1000)
    + Div(Abs(Sin(Div(x, 125)) * Cos(Div(z, 125))) * 120, 1000)
    + (Sin(Div(x * 4, 125)) + Cos(Div(z * 4, 125))) * 120

\* part_004 fbm: four octaves, amplitudes 120, 60, 30, 15.
fbm(x, z) ==
      Div(Sin(Div(x, 500)) * Cos(Div(z, 500)) * 120, 1000)
    + Div(Sin(Div(x, 250) + 1200) * Cos(Div(z, 250) + 1200) * 60, 1000)
    + Div(Abs(Sin(Div(x, 125)) * Cos(Div(z, 125))) * 30, 1000)
    + (Sin(Div(x * 4, 125)) + Cos(Div(z * 4, 125))) * 15

basinWeightHalved(dist) == IF dist < 4000 THEN Div(4000 - dist, 2) ELSE 0

\* part_004: the weight 1.0 - (dist/400) of the lake floor in the blend, in
\* 1/4000; no blend from radius 400 on.
basinWeight004(dist) == IF dist < 4000 THEN 4000 - dist ELSE 0

\* part_004 getTerrainHeight: fbm, blended toward -20 inside radius 400.
getTerrainHeight(x, z) ==
    LET h == fbm(x, z)
        dist == Dist(x, z)
    IN  IF dist < 4000 THEN Lerp(h, -20000, basinWeight004(dist), 4000) ELSE h

\* part_003 noise: four layers, amplitudes 300, 150, 20, 5.
noise003(x, z) ==
      Div(Sin(Div(x * 3, 2000)) * Cos(Div(z * 3, 2000)) * 300, 1000)
    + Div(Sin(Div(x * 15, 4000) + 1500) * Cos(Div(z * 15, 4000) + 500) * 150, 1000)
    + Div(Sin(Div(x * 3, 200)) * Cos(Div(z * 3, 200)) * 20, 1000)
    + Div(Sin(Div(x * 9, 200)) * Cos(Div(z * 21, 400)) * 5, 1000)

\* part_003 valleyFactor, in thousandths: 1 inside the lake radius (600),
\* falling linearly to 0 over the transition band (400).
valleyFactor(d) ==
    IF d < 6000 THEN 1000
    ELSE IF d < 6000 + 4000 THEN 1000 - Div((d - 6000) * 1000, 4000)
    ELSE 0

\* part_003: the weight valleyFactor * valleyFactor of the lake bed in the
\* blend, in thousandths.
basinWeight003(d) == Div(valleyFactor(d) * valleyFactor(d), 1000)

\* part_003 h_lake: the lake bed with its underwater variation.
h_lake(x) == -50000 - Sin(Div(x, 100)) * 10

\* part_003 getAltitude.
getAltitude(x, z) ==
    LET d == Dist(x, z)
        h0 == noise003(x, z)
        vf == valleyFactor(d)
        h1 == IF vf > 0 THEN Lerp(h0, h_lake(x), basinWeight003(d), 1000) ELSE h0
    IN  IF h1 > 100000 THEN h1 + Abs(Sin(Div(x, 20) + Div(z, 20))) * 50 ELSE h1

\* part_000 noise: rolling hills, detail, ridges.
noise000(x, z) ==
      Div(Sin(Div(x, 200)) * Cos(Div(z, 200)) * 50, 1000)
    + Sin(Div(x, 100) + Div(z, 50)) * 20
    + Abs(Sin(Div(x * 3, 100))) * 10

\* part_000 mountainNoise; r is the Math.random() draw of line 106.
mountainNoise(x, z, r) ==
      Div(Abs(Sin(Div(x, 500)) * Cos(Div(z, 500))) * 400, 1000)
    + Div(Abs(Sin(Div(x, 200) + 1200) * Cos(Div(z, 200) + 500)) * 150, 1000)
    + (r - 500) * 20

\* part_000 terrain loop body, lines 120-151: the elevation written for the
\* plane vertex (x, y_orig); r1 is mountainNoise's draw, r2 the roughness draw.
finalH(x, y_orig, r1, r2) ==
    LET h_mtn == mountainNoise(x, y_orig - 500000, r1)
        base == IF y_orig < -300000 THEN h_mtn
                ELSE IF y_orig > 100000 THEN Div(noise000(x, y_orig), 2) + 5000
                ELSE Lerp(100000, -20000, Div(y_orig + 300000, 100), 4000)
                     + (r2 - 500) * 5
        distToCam == Dist(x, y_orig - 100000)
    IN  IF distToCam < 800
        THEN Max(base, 5000 + Sin(distToCam * 10) * 2)
        ELSE base

(***************************************************************************)
(* Terrain mesh and vegetation scatter (bird, condor, bariloche)           *)
(***************************************************************************)

\* Model bounds.  GridSegs stands for the plane's segment count (200, 512,
\* 256 in the sources); MaxTrees for the instance buffer size treeCount
\* (1000, 2000, 500).
GridSegs == 8
MaxTrees == 2

\* The Math.random() draws the model explores, in thousandths.
RandSet == {0, 300, 500, 999}

TerrainProgs == {"bird", "condor", "bariloche"}

\* Side of the terrain plane: CONFIG.worldSize / worldWidth.
WorldSize(p) == IF p = "condor" THEN 4000000 ELSE 2000000

NumVerts == (GridSegs + 1) * (GridSegs + 1)

\* THREE.PlaneGeometry vertex k, row-major: x grows with the column, the
\* plane's y falls with the row (the vertex is stored as (x, -y, 0)).
PlaneX(p, k) ==
    Div((k % (GridSegs + 1)) * WorldSize(p), GridSegs) - WorldSize(p) \div 2

PlaneY(p, k) ==
    -(Div((k \div (GridSegs + 1)) * WorldSize(p), GridSegs) - WorldSize(p) \div 2)

\* terrain.rotation.x = -Math.PI / 2 maps the plane point (x, y, h) to the
\* world point (x, h, -y): a vertex's world z is minus its plane y.
WorldZ(planeY) == -planeY

\* Biome004 with the snow and rock tests in the wrong order of colours.
Biome004Swapped(h) ==
    IF h < 5000 + 2000 THEN "shore"
    ELSE IF h > 150000 THEN "rock"
    ELSE IF h > 80000 THEN "snow"
    ELSE "grass"

\* Colour bands of the three terrain loops, by elevation.
Biome004(h) ==
    IF h < 5000 + 2000 THEN "shore"
    ELSE IF h > 150000 THEN "snow"
    ELSE IF h > 80000 THEN "rock"
    ELSE "grass"

Biome003(h) ==
    IF h < 5000 THEN "shore"
    ELSE IF h > 250000 THEN "snow"
    ELSE IF h > 120000 THEN "rock"
    ELSE "grass"

Biome000(h) ==
    IF h > 220000 THEN "snow"
    ELSE IF h > 100000 THEN "rock"
    ELSE IF h > 5000 THEN "grass"
    ELSE "shore"

Biome(p, h) ==
    IF p = "bird" THEN Biome004(h)
    ELSE IF p = "condor" THEN Biome003(h)
    ELSE Biome000(h)

\* The elevation a terrain loop writes for the plane vertex (x, y).
VertexElevation(p, x, y, r1, r2) ==
    IF p = "bird" THEN getTerrainHeight(x, y)
    ELSE IF p = "condor" THEN getAltitude(x, y)
    ELSE finalH(x, y, r1, r2)

\* Scatter sample coordinate from a draw r: (Math.random() - 0.5) * span.
SampleCoord(p, r) ==
    IF p = "bird" THEN (r - 500) * 1800
    ELSE IF p = "condor" THEN (r - 500) * 3200
    ELSE (r - 500) * 1500

\* Scale of an accepted instance from a draw r.
SampleScale(p, r) ==
    IF p = "bird" THEN 800 + Div(r, 2)
    ELSE IF p = "condor" THEN 800 + Div(r * 6, 10)
    ELSE Div(r, 2) + 500

\* The placement test of each scatter loop.
Accepts(p, x, z) ==
    IF p = "bird"
    THEN LET h == getTerrainHeight(x, z) IN h > 5000 + 5000 /\ h < 140000
    ELSE IF p = "condor"
    THEN LET h == getAltitude(x, z) IN h > 5000 /\ h < 200000
    ELSE z > -500000 /\ z < 0 /\ Abs(x) > 100000

\* position.y of an accepted instance; ry is part_000's height draw.
PlaceY(p, x, z, ry) ==
    IF p = "bird" THEN getTerrainHeight(x, z) + 10000
    ELSE IF p = "condor" THEN getAltitude(x, z) + 12500
    ELSE ry * 50 + 20000

\* An instance matrix as left by new THREE.InstancedMesh: the library fills
\* the buffer before the program writes it, with the identity in current
\* releases and with zeros in older ones.
DefaultSlot(d) == [kind |-> d, x |-> 0, y |-> 0, z |-> 0, s |-> IF d = "identity" THEN 1000 ELSE 0]

\* makeScale(0,0,0) / Matrix4().set(0,...,0): a degenerate transform.
ZeroSlot == [kind |-> "zero", x |-> 0, y |-> 0, z |-> 0, s |-> 0]

TreeSlot(x, y, z, sc) == [kind |-> "tree", x |-> x, y |-> y, z |-> z, s |-> sc]

NoVertex == [x |-> 0, y |-> 0, h |-> 0, biome |-> "none"]

\* Elevations the band classifiers are applied to: a regular ladder and
\* every threshold of the three classifiers with its two neighbours.
ElevStep == 2500
ElevCount == 140

BiomeThresholds == {5000, 7000, 80000, 100000, 120000, 150000, 220000, 250000}

ElevSet ==
    {k * ElevStep - 50000 : k \in 0..ElevCount}
        \cup {t + d : t \in BiomeThresholds, d \in {-1, 0, 1}}

\* Sample coordinates for the height functions: HeightSegs + 1 per axis,
\* spread over the program's terrain plane.
HeightSegs == 16
MaxCalls == 2

HeightCoords(p) ==
    {Div(j * WorldSize(p), HeightSegs) - WorldSize(p) \div 2 : j \in 0..HeightSegs}

\* Frames a flight run lasts, the mousemove events of a run, and the frames
\* between two moments at which the mouse moves.
MaxTicks == 400
MaxMoves == 2
MovePeriod == 200

\* Frames within which a body held in a dive is expected to collide again.
RecurWindow == 50

\* Largest depth of a root call, frames the engine's call stack holds, and
\* setSeason calls of a session.
DepthBound == 3
StackLimit == 9
MaxSeasonCalls == 2

VARIABLES
    prog,     \* which program runs
    pc,       \* position of the start-up script
    vIdx,     \* terrain loop index: vertices written so far
    vert,     \* the vertex written last: plane x, plane y, elevation, band
    i,        \* scatter loop index
    tIdx,     \* accepted instances so far (tIdx / idx)
    forest,   \* the instance buffer
    hx, hz,   \* the point a height function is called at
    hres,     \* the elevations its calls returned, in call order
    e1, e2,   \* two elevations handed to a band classifier
    b1, b2,   \* their bands
    fpos,     \* flight position (this.position / flight.pos)
    pitch, yaw, roll, speed,
    input,    \* the mouse record (mouse / input)
    meshPos,  \* position of the rendered body (mesh.position / condor.position)
    meshPitch,  \* rotation.x of the rendered body
    tick,     \* frames run so far
    moves,    \* mousemove events handled so far
    moved,    \* position.y of the last frame after its movement step
    groundH,  \* groundH of the last frame
    hit,      \* whether the last frame took the collision branch
    lastHit,  \* number of the last frame that took it, 0 if none did
    twin,     \* the flight state of a second run that differs in its first roll
    treePc,   \* "load" before the script's first generator call, "run" after
    maxDepth, \* CONFIG.tree.maxDepth, the depth of the root call
    currentSeason,
    stack,    \* the generator's call stack, innermost call last
    segments, \* branch meshes in the tree group
    clusters, \* leaf clusters added by terminal calls since the last clear
    leafMeshes,  \* leaf meshes in the tree group
    leaves,   \* length of the leaves array
    oldest,   \* the root call the oldest mesh of the tree group dates from (0: none)
    drawn,    \* a frame has rendered the tree since the last root call
    builds,   \* root calls made so far
    seasonCalls  \* setSeason calls made so far

terrainVars == <<pc, vIdx, vert, i, tIdx, forest>>
heightVars == <<hx, hz, hres>>
biomeVars == <<e1, e2, b1, b2>>
flightState == <<fpos, pitch, yaw, roll, speed>>
flightVars == <<flightState, input, meshPos, meshPitch, tick, moves, moved, groundH, hit, lastHit,
                twin>>

treeGroup == <<segments, clusters, leafMeshes>>
treeVars == <<treePc, maxDepth, currentSeason, stack, treeGroup, leaves, oldest,
              drawn, builds, seasonCalls>>

vars == <<prog, terrainVars, heightVars, biomeVars, flightVars, treeVars>>

\* The parts of the state a specification does not exercise rest here.
TerrainIdle ==
    /\ pc = "idle" /\ vIdx = 0 /\ vert = NoVertex /\ i = 0 /\ tIdx = 0
    /\ forest = <<>>

HeightIdle == hx = 0 /\ hz = 0 /\ hres = <<>>

BiomeIdle == e1 = 0 /\ e2 = 0 /\ b1 = "none" /\ b2 = "none"

TreeIdle ==
    /\ treePc = "idle" /\ maxDepth = 0 /\ currentSeason = "none"
    /\ stack = <<>> /\ segments = 0 /\ clusters = 0 /\ leafMeshes = 0
    /\ leaves = 0 /\ oldest = 0 /\ drawn = FALSE
    /\ builds = 0 /\ seasonCalls = 0

Vec(x, y, z) == [x |-> x, y |-> y, z |-> z]

\* A flight state as one value.
FlightRec(pos, p, w, r, s) ==
    [pos |-> pos, pitch |-> p, yaw |-> w, roll |-> r, speed |-> s]

FlightIdle ==
    /\ fpos = Vec(0, 0, 0) /\ pitch = 0 /\ yaw = 0 /\ roll = 0 /\ speed = 0
    /\ input = [x |-> 0, y |-> 0] /\ meshPos = Vec(0, 0, 0) /\ meshPitch = 0
    /\ tick = 0 /\ moves = 0 /\ moved = 0 /\ groundH = 0 /\ hit = FALSE
    /\ lastHit = 0
    /\ twin = FlightRec(Vec(0, 0, 0), 0, 0, 0, 0)

(***************************************************************************)
(* Spec: the start-up script's terrain loop, scatter loop and hide loop.   *)
(***************************************************************************)

Init ==
    /\ prog \in TerrainProgs
    /\ pc = "terrain"
    /\ vIdx = 0
    /\ vert = NoVertex
    /\ i = 0
    /\ tIdx = 0
    /\ \E d \in {"identity", "zeros"} : forest = [k \in 1..MaxTrees |-> DefaultSlot(d)]
    /\ HeightIdle
    /\ BiomeIdle
    /\ FlightIdle
    /\ TreeIdle

\* One iteration of the terrain loop.
TerrainStep ==
    /\ pc = "terrain"
    /\ vIdx < NumVerts
    /\ \E r1 \in RandSet, r2 \in RandSet :
          LET x == PlaneX(prog, vIdx)
              y == PlaneY(prog, vIdx)
              h == VertexElevation(prog, x, y, r1, r2)
          IN  vert' = [x |-> x, y |-> y, h |-> h, biome |-> Biome(prog, h)]
    /\ vIdx' = vIdx + 1
    /\ pc' = IF vIdx + 1 = NumVerts THEN "scatter" ELSE "terrain"
    /\ UNCHANGED <<prog, i, tIdx, forest, heightVars, biomeVars, flightVars, treeVars>>

\* One iteration of the scatter loop.
ScatterStep ==
    /\ pc = "scatter"
    /\ i < MaxTrees
    /\ \E rx \in RandSet, rz \in RandSet, ry \in RandSet, rs \in RandSet :
          LET x == SampleCoord(prog, rx)
              z == SampleCoord(prog, rz)
          IN  IF Accepts(prog, x, z)
              THEN /\ forest' = [forest EXCEPT ![tIdx + 1] =
                                   TreeSlot(x, PlaceY(prog, x, z, ry), z, SampleScale(prog, rs))]
                   /\ tIdx' = tIdx + 1
              ELSE UNCHANGED <<forest, tIdx>>
    /\ i' = i + 1
    /\ pc' = IF i + 1 < MaxTrees THEN "scatter"
             ELSE IF prog = "bariloche" THEN "done" ELSE "hide"
    /\ UNCHANGED <<prog, vIdx, vert, heightVars, biomeVars, flightVars, treeVars>>

\* "Hide rest" / "Hide unused instances": bird and condor only.
HideRest ==
    /\ pc = "hide"
    /\ forest' = [k \in 1..MaxTrees |-> IF k > tIdx THEN ZeroSlot ELSE forest[k]]
    /\ pc' = "done"
    /\ UNCHANGED <<prog, vIdx, vert, i, tIdx, heightVars, biomeVars, flightVars, treeVars>>

Next == TerrainStep \/ ScatterStep \/ HideRest

Spec == Init /\ [][Next]_vars

(***************************************************************************)
(* HeightSpec: a terrain elevation function called repeatedly at one point *)
(***************************************************************************)

HeightInit ==
    /\ prog \in TerrainProgs
    /\ hx \in HeightCoords(prog)
    /\ hz \in HeightCoords(prog)
    /\ hres = <<>>
    /\ TerrainIdle
    /\ BiomeIdle
    /\ FlightIdle
    /\ TreeIdle

\* One call of getTerrainHeight / getAltitude / the part_000 elevation code
\* at (hx, hz); the latter draws Math.random() inside the call.
CallHeight ==
    /\ Len(hres) < MaxCalls
    /\ \E r1 \in RandSet, r2 \in RandSet :
          hres' = Append(hres, VertexElevation(prog, hx, hz, r1, r2))
    /\ UNCHANGED <<prog, hx, hz, terrainVars, biomeVars, flightVars, treeVars>>

HeightNext == CallHeight

HeightSpec == HeightInit /\ [][HeightNext]_vars

(***************************************************************************)
(* BiomeSpec: a band classifier applied to two elevations                  *)
(***************************************************************************)

BiomeInit ==
    /\ prog \in TerrainProgs
    /\ e1 \in ElevSet
    /\ e2 \in ElevSet
    /\ b1 = "none"
    /\ b2 = "none"
    /\ TerrainIdle
    /\ HeightIdle
    /\ FlightIdle
    /\ TreeIdle

Classify ==
    /\ b1 = "none"
    /\ b1' = Biome(prog, e1)
    /\ b2' = Biome(prog, e2)
    /\ UNCHANGED <<prog, e1, e2, terrainVars, heightVars, flightVars, treeVars>>

BiomeNext == Classify

BiomeSpec == BiomeInit /\ [][BiomeNext]_vars

(***************************************************************************)
(* FlightSpec: mousemove events and animation frames of the two flight     *)
(* programs.  HeightFn is the elevation function a program's scatter and   *)
(* collision code call.                                                    *)
(***************************************************************************)

HeightFn(p, x, z) ==
    IF p = "bird" THEN getTerrainHeight(x, z) ELSE getAltitude(x, z)

\* y of the water plane of each program.
WaterLevel(p) == IF p = "bird" THEN 5000 ELSE IF p = "condor" THEN 0 ELSE 2000

FlightProgs == {"bird", "condor"}

\* Positions the mouse handlers can store, per axis.
InputSet == {-1000, 0, 1000}

\* (0, 0, -1) turned by Euler(pitch, yaw, 0, 'YXZ').
ForwardYXZ(p, w) ==
    Vec(-Div(Cos(p) * Sin(w), 1000), Sin(p), -Div(Cos(p) * Cos(w), 1000))

\* (0, 0, -1) turned by an Euler(p, w, r) in 'ZYX' order, in which the roll
\* is applied last.
ForwardZYX(p, w, r) ==
    Vec(-(Div(Div(Cos(p) * Cos(r), 1000) * Sin(w), 1000) + Div(Sin(p) * Sin(r), 1000)),
        -(Div(Div(Cos(p) * Sin(r), 1000) * Sin(w), 1000) - Div(Sin(p) * Cos(r), 1000)),
        -Div(Cos(p) * Cos(w), 1000))

\* (0, 0, -1) turned by condor.rotation = (p, w, r), an Euler in the default
\* 'XYZ' order; the roll turns about the vector itself and drops out.
ForwardXYZ(p, w, r) ==
    Vec(-Sin(w), Div(Cos(w) * Sin(p), 1000), -Div(Cos(w) * Cos(p), 1000))

Advance(pos, f, s) ==
    Vec(pos.x + Div(f.x * s, 1000), pos.y + Div(f.y * s, 1000),
        pos.z + Div(f.z * s, 1000))

\* What the collision test measures against: the higher of ground and water
\* in Bird.update, the ground alone in the condor's animate.
Obstruction(p, gh) == IF p = "bird" THEN Max(gh, WaterLevel("bird")) ELSE gh

\* Collides with the test never succeeding.
CollidesNever(p, y, gh) == FALSE

\* The collision condition.
Collides(p, y, gh) ==
    y < Obstruction(p, gh) + (IF p = "bird" THEN 2000 ELSE 10000)

\* A reset that lifts the body by 1 only.
ResetYShort(p, gh) == Obstruction(p, gh) + 1000

\* position.y set by the collision branch.
ResetY(p, gh) == Obstruction(p, gh) + 10000

\* BouncePitch leaving the pitch as the smoothing step computed it.
BouncePitchKept(p, pitch1) == pitch1

\* pitch set by the collision branch.
BouncePitch(p, pitch1) == IF p = "bird" THEN 500 ELSE Max(pitch1, 200)

\* A correction that puts the body back over the origin.
Respawned(p, pos, gh) == Vec(0, ResetY(p, gh), 0)

\* The position after the correction: y is assigned, x and z are not.
Lifted(p, pos, gh) == [pos EXCEPT !.y = ResetY(p, gh)]

\* YawStep with the bird's turn speed doubled.
YawStepDoubled(p, ix) == -Div(ix * 80, 1000)

\* The yaw added by one frame: -targetX * turnSpeed in Bird.update,
\* targetYaw = -input.x * 0.02 in the condor's animate.
YawStep(p, ix) ==
    IF p = "bird" THEN -Div(ix * 40, 1000) ELSE Div(-ix * 2, 100)

\* Rolls the second run starts with.
TwinRolls == {-1000, 500}

FlightInit ==
    /\ prog \in FlightProgs
    /\ fpos = IF prog = "bird" THEN Vec(0, 200000, 400000) ELSE Vec(0, 300000, 600000)
    /\ speed = IF prog = "bird" THEN 2000 ELSE 1000
    /\ pitch = 0 /\ yaw = 0 /\ roll = 0
    /\ input = [x |-> 0, y |-> 0]
    /\ meshPos = Vec(0, 0, 0)
    /\ meshPitch = 0
    /\ tick = 0 /\ moves = 0 /\ moved = 0 /\ groundH = 0 /\ hit = FALSE
    /\ lastHit = 0
    /\ \E r \in TwinRolls : twin = FlightRec(fpos, pitch, yaw, r, speed)
    /\ TerrainIdle
    /\ HeightIdle
    /\ BiomeIdle
    /\ TreeIdle

\* The mousemove listener.  The bird's listener inverts the vertical axis,
\* the condor's does not; both store any pair of [-1, 1].
ListenerSteers(v, mx) == v - mx

\* The heading after the listener has run: its body assigns input.x and
\* input.y and touches nothing of the flight state.
ListenerKeeps(v, mx) == v

MouseMove ==
    /\ moves < MaxMoves
    /\ tick % MovePeriod = 0
    /\ moves' = moves + 1
    /\ \E mx \in InputSet, my \in InputSet :
        /\ <<mx, my>> # <<input.x, input.y>>
        /\ input' = [x |-> mx, y |-> my]
        /\ yaw' = ListenerKeeps(yaw, mx)
    /\ UNCHANGED <<prog, terrainVars, heightVars, biomeVars, fpos, pitch,
                   roll, speed, meshPos, meshPitch, tick, moved, groundH, hit,
                   lastHit, twin, treeVars>>

\* One whole frame as a function: the flight state that Bird.update, or the
\* flight part of the condor's animate, makes of the flight state s under
\* the input inp.
FrameOf(p, s, inp) ==
    LET yaw1 == s.yaw + YawStep(p, inp.x)
        pitch1 == IF p = "bird"
                  THEN Lerp(s.pitch, Div(inp.y * 8, 10), 1, 10)
                  ELSE s.pitch + Div(Div(inp.y * 8, 10) - s.pitch, 10)
        roll1 == IF p = "bird"
                 THEN Lerp(s.roll, -inp.x, 5, 100)
                 ELSE s.roll + Div((-inp.x - s.roll) * 5, 100)
        speed1 == IF p = "bird"
                  THEN (IF pitch1 < -200 THEN s.speed + 10
                        ELSE s.speed + Div(2000 - s.speed, 100))
                  ELSE s.speed + Div(((2000 + (IF inp.y > 0 THEN Div(inp.y * 15, 10) ELSE 0))
                                       - s.speed) * 5, 100)
        pos1 == IF p = "bird"
                THEN Advance(s.pos, ForwardYXZ(pitch1, yaw1), s.speed)
                ELSE Advance(s.pos, ForwardXYZ(pitch1, yaw1, roll1), speed1)
        gh == HeightFn(p, pos1.x, pos1.z)
        low == Collides(p, pos1.y, gh)
    IN  FlightRec(IF low THEN Lifted(p, pos1, gh) ELSE pos1,
                  IF low THEN BouncePitch(p, pitch1) ELSE pitch1,
                  yaw1, roll1, speed1)

\* Bird.update(mouse.x, mouse.y), called once per frame by animate.
BirdUpdate ==
    /\ prog = "bird"
    /\ tick < MaxTicks
    /\ LET yaw1 == yaw + YawStep("bird", input.x)
           pitch1 == Lerp(pitch, Div(input.y * 8, 10), 1, 10)
           roll1 == Lerp(roll, -input.x, 5, 100)
           pos1 == Advance(fpos, ForwardYXZ(pitch1, yaw1), speed)
           speed1 == IF pitch1 < -200 THEN speed + 10
                     ELSE speed + Div(2000 - speed, 100)
           gh == getTerrainHeight(pos1.x, pos1.z)
           crash == Collides("bird", pos1.y, gh)
       IN /\ yaw' = yaw1
          /\ roll' = roll1
          /\ meshPos' = pos1
          /\ meshPitch' = pitch1
          /\ speed' = speed1
          /\ moved' = pos1.y
          /\ groundH' = gh
          /\ hit' = crash
          /\ lastHit' = IF crash THEN tick + 1 ELSE lastHit
          /\ fpos' = IF crash THEN Lifted("bird", pos1, gh) ELSE pos1
          /\ pitch' = IF crash THEN BouncePitch("bird", pitch1) ELSE pitch1
    /\ twin' = FrameOf("bird", twin, input)
    /\ tick' = tick + 1
    /\ UNCHANGED <<prog, terrainVars, heightVars, biomeVars, input, moves, treeVars>>

\* The flight part of the condor's animate.
CondorTick ==
    /\ prog = "condor"
    /\ tick < MaxTicks
    /\ LET targetSpeed == 2000 + (IF input.y > 0 THEN Div(input.y * 15, 10) ELSE 0)
           speed1 == speed + Div((targetSpeed - speed) * 5, 100)
           pitch1 == pitch + Div(Div(input.y * 8, 10) - pitch, 10)
           roll1 == roll + Div((-input.x - roll) * 5, 100)
           yaw1 == yaw + YawStep("condor", input.x)
           pos1 == Advance(fpos, ForwardXYZ(pitch1, yaw1, roll1), speed1)
           gh == getAltitude(pos1.x, pos1.z)
           low == Collides("condor", pos1.y, gh)
           pos2 == IF low THEN Lifted("condor", pos1, gh) ELSE pos1
       IN /\ speed' = speed1
          /\ roll' = roll1
          /\ yaw' = yaw1
          /\ moved' = pos1.y
          /\ groundH' = gh
          /\ hit' = low
          /\ lastHit' = IF low THEN tick + 1 ELSE lastHit
          /\ fpos' = pos2
          /\ pitch' = IF low THEN BouncePitch("condor", pitch1) ELSE pitch1
          /\ meshPos' = pos2
          /\ meshPitch' = pitch1
    /\ twin' = FrameOf("condor", twin, input)
    /\ tick' = tick + 1
    /\ UNCHANGED <<prog, terrainVars, heightVars, biomeVars, input, moves, treeVars>>

FlightNext == MouseMove \/ BirdUpdate \/ CondorTick

FlightSpec == FlightInit /\ [][FlightNext]_vars

\* animate re-arms itself with requestAnimationFrame unconditionally: a frame
\* is due in every state short of the run-length cap, and the frame counter
\* advances with it.
FrameDue == prog \in FlightProgs /\ tick < MaxTicks /\ tick' = tick + 1

\* The browser keeps delivering the frames that are due.
FairFlightSpec == FlightSpec /\ WF_tick(FrameDue)

(***************************************************************************)
(* TreeSpec: the recursive tree generators, one step per call, loop        *)
(* iteration and return, and the setSeason handler of the season programs. *)
(***************************************************************************)

TreeProgs == {"patagonia", "bariloche", "seasons002", "seasons001", "main"}
SeasonProgs == {"seasons002", "seasons001", "main"}
Seasons == {"spring", "summer", "autumn", "winter"}

\* CONFIG.tree.leafDensity; createTwistedBranch adds one sphere per tip.
leafDensity(p) ==
    IF p = "patagonia" THEN 6 ELSE IF p = "seasons002" THEN 6
    ELSE IF p = "seasons001" THEN 5 ELSE IF p = "main" THEN 7 ELSE 1

branchLength(p) ==
    IF p = "patagonia" THEN 6000 ELSE IF p = "seasons002" THEN 6000
    ELSE IF p = "seasons001" THEN 5500 ELSE IF p = "main" THEN 7000 ELSE 8000

branchRadius(p) ==
    IF p = "patagonia" THEN 800 ELSE IF p = "seasons002" THEN 700
    ELSE IF p = "seasons001" THEN 600 ELSE IF p = "main" THEN 800 ELSE 1500

\* Length and radius handed to a child call.
ChildLen(p, len) ==
    IF p = "seasons001" THEN Div(len * 72, 100)
    ELSE IF p = "bariloche" THEN Div(len * 8, 10) ELSE Div(len * 7, 10)

ChildRad(p, rad) ==
    IF p = "seasons001" THEN Div(rad * 72, 100) ELSE Div(rad * 7, 10)

\* ChildDepth stepping down two levels at a time.
ChildDepthSkip(d) == d - 2

\* The depth handed to a child call.
ChildDepth(d) == d - 1

\* ChildCount with one child fewer when the draw is high.
ChildCountSparse(p, r) == 2 - (IF r > 700 THEN 1 ELSE 0)

\* ChildCount with seven or eight children per call.
ChildCountWide(p, r) == 2 + (IF r > 700 THEN 6 ELSE 5)

\* numChildren / count, from the Math.random() draw r.
ChildCount(p, r) ==
    IF p \in {"seasons002", "seasons001"} THEN 2 + (IF r > 700 THEN 1 ELSE 0)
    ELSE IF p = "main" THEN 2 + (IF r > 600 THEN 1 ELSE 0)
    ELSE 2

\* CONFIG.tree.maxDepth, and the depth literal of the arrayan's root call.
ConfigDepth(p) ==
    IF p = "patagonia" THEN 7 ELSE IF p = "bariloche" THEN 4
    ELSE IF p = "seasons001" THEN 6 ELSE 5

\* Depths of the root call: every depth up to DepthBound, and the configured
\* depth.
RootDepths(p) == (0..DepthBound) \cup {ConfigDepth(p)}

\* The Math.random() draws a call may make for its child count.  Up to
\* DepthBound every call draws freely; in a deeper run every call draws on the
\* side of the threshold the root call drew on, which gives the smallest and
\* the largest tree of that depth.
CountDraws(p, d, st) ==
    IF d <= DepthBound \/ Len(st) = 1 THEN RandSet
    ELSE {r \in RandSet : ChildCount(p, r) = st[1].count}

\* Terminal calls that add no leaf.
LeafCountBare(p, season) == 0

\* leafCount of a terminal call; patagonia and bariloche have no seasons.
LeafCount(p, season) ==
    IF p \in SeasonProgs /\ season = "winter" THEN 0 ELSE leafDensity(p)

\* Rebuilds without the test for winter.
RebuildsWhenBare(s, children) == children < 50

\* Rebuilds with a threshold of 500 children.
RebuildsBelowFiveHundred(s, children) == s # "winter" /\ children < 500

\* Whether setSeason(s) calls buildTree, given treeGroup.children.length.
Rebuilds(s, children) == s # "winter" /\ children < 50

Frame(d, len, rad) ==
    [depth |-> d, len |-> len, rad |-> rad, at |-> "enter", count |-> 0, i |-> 0]

Top == stack[Len(stack)]
Pop == SubSeq(stack, 1, Len(stack) - 1)

\* The clearing loop left out: the n children stay.
Kept(n) == n

\* What "while (treeGroup.children.length > 0) treeGroup.remove(...)" leaves
\* of n children.
Emptied(n) == 0

\* The root call; buildTree empties the tree group and the leaves array first.
RootCall ==
    /\ stack' = <<Frame(maxDepth, branchLength(prog), branchRadius(prog))>>
    /\ segments' = Emptied(segments)
    /\ clusters' = Emptied(clusters)
    /\ leafMeshes' = Emptied(leafMeshes)
    /\ oldest' = IF Emptied(segments + leafMeshes) = 0 THEN 0 ELSE oldest
    /\ leaves' = 0
    /\ drawn' = FALSE
    /\ builds' = builds + 1

TreeInit ==
    /\ prog \in TreeProgs
    /\ treePc = "load"
    /\ maxDepth \in RootDepths(prog)
    /\ currentSeason = IF prog \in SeasonProgs THEN "spring" ELSE "none"
    /\ stack = <<>>
    /\ segments = 0 /\ clusters = 0 /\ leafMeshes = 0
    /\ leaves = 0 /\ oldest = 0 /\ drawn = FALSE
    /\ builds = 0 /\ seasonCalls = 0
    /\ TerrainIdle
    /\ HeightIdle
    /\ BiomeIdle
    /\ FlightIdle

\* The script's own generator call: createBranch(...), createTwistedBranch(...)
\* or buildTree() at the top level of the module.
StartTree ==
    /\ treePc = "load"
    /\ treePc' = "run"
    /\ RootCall
    /\ UNCHANGED <<prog, terrainVars, heightVars, biomeVars, flightVars,
                   maxDepth, currentSeason, seasonCalls>>

\* A call with depth === 0: the leaves, then return.
EnterLeaf ==
    /\ stack # <<>>
    /\ Top.at = "enter"
    /\ Top.depth = 0
    /\ LET leafCount == LeafCount(prog, currentSeason)
       IN /\ clusters' = clusters + (IF leafCount > 0 THEN 1 ELSE 0)
          /\ leafMeshes' = leafMeshes + leafCount
          /\ leaves' = leaves + (IF prog \in SeasonProgs THEN leafCount ELSE 0)
          /\ oldest' = IF leafCount > 0 /\ oldest = 0 THEN builds ELSE oldest
    /\ stack' = Pop
    /\ UNCHANGED <<prog, terrainVars, heightVars, biomeVars, flightVars,
                   treePc, maxDepth, currentSeason, segments, drawn, builds,
                   seasonCalls>>

\* A call with any other depth: the branch mesh and the child count.
EnterBranch ==
    /\ stack # <<>>
    /\ Top.at = "enter"
    /\ Top.depth # 0
    /\ segments' = segments + 1
    /\ oldest' = IF oldest = 0 THEN builds ELSE oldest
    /\ \E r \in CountDraws(prog, maxDepth, stack) :
        stack' = [stack EXCEPT ![Len(stack)] =
                     [@ EXCEPT !.at = "loop", !.count = ChildCount(prog, r)]]
    /\ UNCHANGED <<prog, terrainVars, heightVars, biomeVars, flightVars,
                   treePc, maxDepth, currentSeason, clusters, leafMeshes,
                   leaves, drawn, builds, seasonCalls>>

\* One iteration of the child loop: the recursive call.  The engine's call
\* stack holds StackLimit frames.
SpawnChild ==
    /\ stack # <<>>
    /\ Top.at = "loop"
    /\ Top.i < Top.count
    /\ Len(stack) < StackLimit
    /\ stack' = Append([stack EXCEPT ![Len(stack)] = [@ EXCEPT !.i = @ + 1]],
                       Frame(ChildDepth(Top.depth), ChildLen(prog, Top.len),
                             ChildRad(prog, Top.rad)))
    /\ UNCHANGED <<prog, terrainVars, heightVars, biomeVars, flightVars,
                   treePc, maxDepth, currentSeason, treeGroup, leaves, oldest,
                   drawn, builds, seasonCalls>>

\* The child loop is over: return.
Return ==
    /\ stack # <<>>
    /\ Top.at = "loop"
    /\ Top.i = Top.count
    /\ stack' = Pop
    /\ UNCHANGED <<prog, terrainVars, heightVars, biomeVars, flightVars,
                   treePc, maxDepth, currentSeason, treeGroup, leaves, oldest,
                   drawn, builds, seasonCalls>>

\* A click on a season button: setSeason(s), which runs between scripts,
\* never inside a generator call.
SetSeason ==
    /\ prog \in SeasonProgs
    /\ treePc = "run"
    /\ stack = <<>>
    /\ seasonCalls < MaxSeasonCalls
    /\ seasonCalls' = seasonCalls + 1
    /\ \E s \in Seasons :
        /\ currentSeason' = s
        /\ IF Rebuilds(s, segments + leafMeshes)
           THEN RootCall
           ELSE UNCHANGED <<stack, treeGroup, leaves, oldest, drawn, builds>>
    /\ UNCHANGED <<prog, terrainVars, heightVars, biomeVars, flightVars,
                   treePc, maxDepth>>

\* A frame callback starts only when no script is on the engine's stack: the
\* generators are synchronous and yield nowhere.
FrameMayRun == stack = <<>>

\* animate of a tree program: it goes over the leaves array and renders the
\* scene, tree group included.  The first call is made at the end of the
\* script, after the tree is built.
TreeFrame ==
    /\ prog \in TreeProgs
    /\ treePc = "run"
    /\ FrameMayRun
    /\ drawn' = TRUE
    /\ UNCHANGED <<prog, terrainVars, heightVars, biomeVars, flightVars,
                   treePc, maxDepth, currentSeason, stack, treeGroup, leaves,
                   oldest, builds, seasonCalls>>

Generate == EnterLeaf \/ EnterBranch \/ SpawnChild \/ Return

TreeNext ==
    StartTree \/ EnterLeaf \/ EnterBranch \/ SpawnChild \/ Return \/ SetSeason \/ TreeFrame

TreeSpec == TreeInit /\ [][TreeNext]_vars

\* A script runs to completion: a started generator call is always continued.
FairTreeSpec == TreeSpec /\ WF_vars(StartTree) /\ WF_vars(Generate)

(***************************************************************************)
(* Properties                                                              *)
(***************************************************************************)

\* C1 (as claimed): in both flight programs, a frame whose movement leaves
\* position.y below max(height(x, z), waterLevel) ends with position.y above
\* max(height(x, z), waterLevel), the water level being the y of the
\* program's water plane.
C1_CollisionResolves ==
    (tick > 0 /\ moved < Max(groundH, WaterLevel(prog)))
        => fpos.y > Max(groundH, WaterLevel(prog))

\* Half the cone height added to an instance's y by PlaceY (bird adds 10,
\* condor 12.5).
BaseOffset(p) == IF p = "bird" THEN 10000 ELSE 12500

TreeSlots == {k \in 1..Len(forest) : forest[k].kind = "tree"}

\* C2 (as claimed): the three consumers observe one elevation per world
\* point.  The mesh vertex written last, seen at its world position, carries
\* the height function's value there; every placed instance stands on the
\* value of the same function at its (x, z) (in part_000: on an elevation
\* the terrain loop can write for that point).
C2_SameElevation ==
    /\ (vert.biome # "none" /\ prog \in {"bird", "condor"})
          => vert.h = HeightFn(prog, vert.x, WorldZ(vert.y))
    /\ \A k \in TreeSlots :
          IF prog = "bariloche"
          THEN \E r1 \in RandSet, r2 \in RandSet :
                  forest[k].y = finalH(forest[k].x, -forest[k].z, r1, r2)
          ELSE forest[k].y - BaseOffset(prog) = HeightFn(prog, forest[k].x, forest[k].z)

\* C3 (as claimed): repeated calls of a terrain elevation function with the
\* same (x, z) return the same elevation.
C3_Deterministic ==
    \A j \in 1..Len(hres), k \in 1..Len(hres) : hres[j] = hres[k]

\* The interval the octave amplitudes confine getTerrainHeight and
\* getAltitude to.
MinElev(p) == IF p = "bird" THEN -(120 + 60 + 30) * 1000 ELSE -(300 + 150 + 20 + 5) * 1000
MaxElev(p) == IF p = "bird" THEN (120 + 60 + 30 + 30) * 1000 ELSE (300 + 150 + 20 + 5 + 50) * 1000

BiomeRank(b) ==
    IF b = "shore" THEN 0 ELSE IF b = "grass" THEN 1 ELSE IF b = "rock" THEN 2 ELSE 3

\* C5: for two elevations e1 < e2 above the water level, the band of e2 is
\* never lower than the band of e1 (shore < grass < rock < snow), in all three
\* terrain loops.
C5_BiomeMonotonic ==
    (b1 # "none" /\ e1 < e2 /\ e1 > WaterLevel(prog))
        => BiomeRank(b2) >= BiomeRank(b1)

\* C5 witness: two classified elevations above the water in different bands.
C5_Witness ==
    b1 = "grass" /\ b2 = "snow" /\ e1 < e2 /\ e1 > WaterLevel(prog)

\* The elevation band each scatter loop is meant to keep its instances in;
\* part_000 assigns y in [20, 70) on a "slope assumption".
MinHeight(p) == IF p = "bird" THEN 10000 ELSE IF p = "condor" THEN 5000 ELSE 20000
MaxHeight(p) == IF p = "bird" THEN 140000 ELSE IF p = "condor" THEN 200000 ELSE 70000

\* C9 (as claimed): every placed instance stands where the terrain elevation
\* is strictly inside the program's vegetation band.
C9_InBand ==
    \A k \in TreeSlots :
        IF prog = "bariloche"
        THEN \A r1 \in RandSet, r2 \in RandSet :
                LET h == finalH(forest[k].x, -forest[k].z, r1, r2)
                IN  MinHeight(prog) < h /\ h < MaxHeight(prog)
        ELSE LET h == HeightFn(prog, forest[k].x, forest[k].z)
             IN  MinHeight(prog) < h /\ h < MaxHeight(prog)

\* C10 (as claimed): after the scatter pass every slot at or beyond the
\* accepted count holds a zero-scale transform.
C10_RestDegenerate ==
    pc = "done" => \A k \in (tIdx + 1)..Len(forest) : forest[k].s = 0

\* k of the claimed segment bound: 3 for the season programs, 2 for the
\* fixed-binary generators.
BranchFactor(p) == IF p \in SeasonProgs THEN 3 ELSE 2

RECURSIVE Pow(_, _)
Pow(k, n) == IF n = 0 THEN 1 ELSE k * Pow(k, n - 1)

Running == stack # <<>>
Built == treePc = "run" /\ stack = <<>>

\* C6: a generator run started at any depth d >= 0 terminates: every
\* recursive call is made with the caller's depth minus one, no call has a
\* negative depth, the terminal case is taken exactly at depth 0, and every
\* started run comes to its end.
C6_Terminates ==
    /\ [](\A k \in 1..Len(stack) : stack[k].depth >= 0)
    /\ [][Len(stack') > Len(stack) /\ Len(stack) > 0
            => stack'[Len(stack')].depth = stack[Len(stack)].depth - 1]_vars
    /\ [][(Running /\ Len(stack') < Len(stack) /\ Top.at = "enter")
            <=> (Running /\ Top.depth = 0 /\ stack' # stack)]_vars
    /\ (Running ~> Built)

\* C6 witness: a run of depth 3 has recursed and come to its end.
C6_Witness ==
    Built /\ maxDepth >= 3 /\ segments >= 7 /\ clusters >= 8

\* C7: in one generation run of starting depth d, the number of branch
\* segments never exceeds (k^(d+1) - 1)/(k - 1), with k = 3 in the season
\* programs and k = 2 in the fixed-binary generators.
C7_SegmentBound ==
    prog \in TreeProgs =>
        segments <= (Pow(BranchFactor(prog), maxDepth + 1) - 1) \div (BranchFactor(prog) - 1)

\* C7 witness: a run of a season program in which every call drew three
\* children has ended.
C7_Witness ==
    /\ Built /\ prog \in SeasonProgs /\ maxDepth >= 2
    /\ segments = (Pow(3, maxDepth) - 1) \div 2

C11_RebuiltOnSeasonChange ==
    (prog \in SeasonProgs /\ Built) =>
        leafMeshes = (IF currentSeason = "winter" THEN 0
                      ELSE leafDensity(prog) * clusters)

\* C12 (as claimed): in both flight programs the speed stays within one
\* fixed interval after any sequence of frames; the interval is taken as
\* wide as the speeds the programs name allow, from the condor's initial 1.0
\* to its largest target speed 2.0 + 1.5.
C12_SpeedClamped ==
    prog \in FlightProgs => (speed >= 1000 /\ speed <= 3500)

\* C13: a frame that takes the collision branch ends with pitch > 0,
\* whatever the pitch, yaw, roll and input before it, and with position.y
\* above the value the movement step left.
C13_BounceClimbs ==
    (prog \in FlightProgs /\ tick > 0 /\ hit) => (pitch > 0 /\ fpos.y > moved)

\* C13 witness: the condor has hit the ground while diving and its pitch was
\* replaced by the bounce value.
C13_Witness ==
    prog = "condor" /\ hit /\ input.y < 0 /\ pitch = 200 /\ fpos.y > moved

Sign(a) == IF a > 0 THEN 1 ELSE IF a < 0 THEN -1 ELSE 0

DiveHeld ==
    /\ input.y = -1000
    /\ \/ moves = MaxMoves
       \/ (tick % MovePeriod # 0 /\ (tick \div MovePeriod + 1) * MovePeriod >= MaxTicks)

\* C15: a collision neither ends nor freezes the flight: the speed is
\* positive in every state, every frame is followed by another frame (up to
\* the last frame of the run), the
\* correction is applied in exactly the frames whose movement ends under the
\* collision threshold, and a body held in a dive collides again after each
\* collision.
C15_NeverAbsorbing ==
    /\ [](prog \in FlightProgs => speed > 0)
    /\ ((prog \in FlightProgs /\ tick < MaxTicks) ~> (tick = MaxTicks))
    /\ []((prog \in FlightProgs /\ tick > 0) =>
            /\ hit <=> (IF prog = "bird"
                        THEN moved < Max(groundH, 5000) + 2000
                        ELSE moved < groundH + 10000)
            /\ hit => fpos.y = (IF prog = "bird" THEN Max(groundH, 5000)
                                ELSE groundH) + 10000
            /\ ~hit => fpos.y = moved)
    /\ ((lastHit > 0 /\ lastHit < tick /\ DiveHeld /\ tick <= MaxTicks - RecurWindow)
            ~> (lastHit = tick))

\* C15 witness: after a collision the bird, still held in a dive, is diving
\* again.
C15_Witness ==
    /\ prog = "bird" /\ lastHit > 0 /\ lastHit < tick /\ pitch < -200
    /\ DiveHeld /\ tick <= MaxTicks - RecurWindow

\* C16: in every interleaving of mousemove events and frames, the flight
\* state (position, pitch, yaw, roll, speed) changes only in a frame; a
\* mousemove event changes the input record and leaves the flight state as it
\* was; and a frame leaves the input alone and computes yaw, roll and (off a
\* collision) pitch from the one pair (input.x, input.y) it finds.
C16_SingleWriter ==
    [][/\ flightState' # flightState => tick' = tick + 1
       /\ input' # input => (flightState' = flightState /\ tick' = tick)
       /\ tick' = tick + 1 =>
            /\ input' = input
            /\ yaw' = yaw + YawStep(prog, input.x)
            /\ roll' = (IF prog = "bird"
                          THEN Lerp(roll, -input.x, 5, 100)
                          ELSE roll + Div((-input.x - roll) * 5, 100))
            /\ ~hit' => pitch' = (IF prog = "bird"
                          THEN Lerp(pitch, Div(input.y * 8, 10), 1, 10)
                          ELSE pitch + Div(Div(input.y * 8, 10) - pitch, 10))]_vars

\* The mouse has moved between two frames of a running flight, and frames
\* have run on the new pair.
C16_Witness ==
    /\ prog \in FlightProgs
    /\ moves = MaxMoves
    /\ tick > MovePeriod
    /\ input.x # 0
    /\ input.y # 0
    /\ yaw # 0

\* The basin of a height function: the weight of its floor at distance d from
\* the centre, the value that stands for weight 1, the floor itself, the
\* distance at which the blend ends, and the elevation before the blend.
BasinWeight(p, d) == IF p = "bird" THEN basinWeight004(d) ELSE basinWeight003(d)
FullWeight(p) == IF p = "bird" THEN 4000 ELSE 1000
BasinFloor(p, x) == IF p = "bird" THEN -20000 ELSE h_lake(x)
BasinEnd(p) == IF p = "bird" THEN 4000 ELSE 6000 + 4000
RawElevation(p, x, z) == IF p = "bird" THEN fbm(x, z) ELSE noise003(x, z)

\* What the function returns where the basin has no weight: the raw
\* elevation, with getAltitude's ridges on the high ground.
Unblended(p, x, z) ==
    LET h == RawElevation(p, x, z)
    IN  IF p = "condor" /\ h > 100000
        THEN h + Abs(Sin(Div(x, 20) + Div(z, 20))) * 50
        ELSE h

\* Raw elevations fed to the blend at the centre.
RawLadder == {-400000, -50000, -20000, 0, 35000, 131000, 300000}

\* C17: the blend weight is 1 at the basin centre, so height(0,0) is the
\* basin floor whatever the raw elevation there (and below the raw elevation
\* the function has there); the weight does not increase with the distance
\* from the centre, and is 0 from the basin edge (plus the transition band)
\* on, where the function returns the unblended elevation.
C17_BasinBlend ==
    prog \in {"bird", "condor"} =>
        LET d == Dist(hx, hz)
        IN  /\ BasinWeight(prog, 0) = FullWeight(prog)
            /\ \A h \in RawLadder :
                  Lerp(h, BasinFloor(prog, 0), BasinWeight(prog, 0), FullWeight(prog))
                     = BasinFloor(prog, 0)
            /\ HeightFn(prog, 0, 0) = BasinFloor(prog, 0)
            /\ HeightFn(prog, 0, 0) < RawElevation(prog, 0, 0)
            /\ \A x2 \in HeightCoords(prog), z2 \in HeightCoords(prog) :
                  d <= Dist(x2, z2) => BasinWeight(prog, d) >= BasinWeight(prog, Dist(x2, z2))
            /\ BasinWeight(prog, d) >= 0
            /\ BasinWeight(prog, d) <= FullWeight(prog)
            /\ d >= BasinEnd(prog) =>
                  /\ BasinWeight(prog, d) = 0
                  /\ \A k \in 1..Len(hres) : hres[k] = Unblended(prog, hx, hz)
            /\ d = 0 => \A k \in 1..Len(hres) : hres[k] = BasinFloor(prog, hx)

\* C17 witness: getTerrainHeight has been called at the centre and returned
\* the floor, -20, below the fbm value there.
C17_Witness ==
    /\ prog = "bird"
    /\ hx = 0
    /\ hz = 0
    /\ Len(hres) > 0
    /\ hres[1] = -20000
    /\ fbm(0, 0) > 0

\* The flight state a frame produces before its collision test, from the
\* state and input it starts in: Bird.update moves with the speed it had and
\* then adjusts the speed, the condor adjusts the speed and then moves.
Uncorrected ==
    LET yaw1 == yaw + YawStep(prog, input.x)
        pitch1 == IF prog = "bird"
                  THEN Lerp(pitch, Div(input.y * 8, 10), 1, 10)
                  ELSE pitch + Div(Div(input.y * 8, 10) - pitch, 10)
        roll1 == IF prog = "bird"
                 THEN Lerp(roll, -input.x, 5, 100)
                 ELSE roll + Div((-input.x - roll) * 5, 100)
        speed1 == IF prog = "bird"
                  THEN (IF pitch1 < -200 THEN speed + 10 ELSE speed + Div(2000 - speed, 100))
                  ELSE speed + Div(((2000 + (IF input.y > 0 THEN Div(input.y * 15, 10) ELSE 0)) - speed) * 5, 100)
        pos1 == IF prog = "bird"
                THEN Advance(fpos, ForwardYXZ(pitch1, yaw1), speed)
                ELSE Advance(fpos, ForwardXYZ(pitch1, yaw1, roll1), speed1)
    IN  [pos |-> pos1, pitch |-> pitch1, yaw |-> yaw1, roll |-> roll1, speed |-> speed1]

\* C18: a frame with a collision differs from the same frame without the
\* correction in position.y and pitch only: position.x, position.z, yaw, roll
\* and speed are those of the uncorrected frame; a frame without a collision
\* is the uncorrected frame.
C18_CorrectionFootprint ==
    [][tick' = tick + 1 =>
          /\ fpos'.x = Uncorrected.pos.x
          /\ fpos'.z = Uncorrected.pos.z
          /\ yaw' = Uncorrected.yaw
          /\ roll' = Uncorrected.roll
          /\ speed' = Uncorrected.speed
          /\ moved' = Uncorrected.pos.y
          /\ ~hit' => (fpos' = Uncorrected.pos /\ pitch' = Uncorrected.pitch)
          /\ hit' => fpos'.y # Uncorrected.pos.y]_vars

\* C18 witness: the bird, turning and banked, has just been corrected: y and
\* pitch are the correction's, away from the origin in x and z.
C18_Witness ==
    /\ prog = "bird"
    /\ hit
    /\ fpos.y # moved
    /\ pitch = 500
    /\ yaw # 0
    /\ roll # 0
    /\ fpos.x # 0
    /\ fpos.z # 0

\* v after n child calls, each multiplying by k hundredths.
RECURSIVE Shrunk(_, _, _)
Shrunk(v, k, n) == IF n = 0 THEN v ELSE Shrunk(Div(v * k, 100), k, n - 1)

\* The shrink factors found in the generators, in hundredths.
ShrinkFactors == {70, 72, 80}

\* C19 (as claimed): in every tree variant the call at recursion level i has
\* depth = root depth - i and, for one shrink factor, length = root length *
\* shrink^i and radius = root radius * shrink^i.
C19_OneShrinkFactor ==
    \A j \in 1..Len(stack) :
        /\ stack[j].depth = maxDepth - (j - 1)
        /\ \E k \in ShrinkFactors :
              /\ stack[j].len = Shrunk(branchLength(prog), k, j - 1)
              /\ stack[j].rad = Shrunk(branchRadius(prog), k, j - 1)

\* C20: a generator call with depth > 0 adds exactly one segment, when it
\* is entered, and makes exactly 2 or 3 recursive calls before it returns,
\* whatever Math.random() draws.
C20_BranchCall ==
    /\ [](\A k \in 1..Len(stack) :
            stack[k].at = "loop" =>
                (stack[k].depth > 0 /\ stack[k].count \in {2, 3} /\ stack[k].i <= stack[k].count))
    /\ [][(Running /\ Top.at = "enter" /\ Top.depth > 0 /\ stack' # stack)
            => /\ segments' = segments + 1
               /\ Len(stack') = Len(stack)
               /\ stack'[Len(stack)].at = "loop"
               /\ stack'[Len(stack)].i = 0]_vars
    /\ [][(Running /\ Top.at = "loop" /\ stack' # stack)
            => /\ segments' = segments
               /\ \/ /\ Top.i < Top.count
                     /\ Len(stack') = Len(stack) + 1
                     /\ stack'[Len(stack)].i = Top.i + 1
                     /\ stack'[Len(stack')].at = "enter"
                  \/ /\ Top.i = Top.count
                     /\ stack' = Pop]_vars

\* C20 witness: the root call of a season program drew three children, has
\* spawned all three, and they have returned.
C20_Witness ==
    /\ prog \in SeasonProgs
    /\ Len(stack) = 1
    /\ Top.at = "loop"
    /\ Top.depth > 1
    /\ Top.count = 3
    /\ Top.i = 3
    /\ segments >= 1 + 3

\* The speed a frame moves the body with: Bird.update moves before it adjusts
\* the speed, the condor after.
MoveSpeed == IF prog = "bird" THEN speed ELSE Uncorrected.speed

\* What the truncations of one frame's arithmetic can add up to, in
\* thousandths of a unit.
RoundOff == 10

\* C21 (as claimed): in both flight variants the forward vector has the
\* vertical component sin(pitch) whatever the yaw, so the climb of a frame is
\* sin(pitch) * speed (to within the rounding of the last digits) and is not
\* negative when the pitch is positive; and its heading is that of the yaw
\* alone: the horizontal move is parallel to (-sin(yaw), -cos(yaw)).
C21_YawThenPitch ==
    [][tick' = tick + 1 =>
          LET dx == fpos'.x - fpos.x
              dy == moved' - fpos.y
              dz == fpos'.z - fpos.z
              p1 == Uncorrected.pitch
              w1 == Uncorrected.yaw
          IN  /\ Abs(dy - Div(Sin(p1) * MoveSpeed, 1000)) <= RoundOff
              /\ p1 > 0 => dy >= 0
              /\ Abs(Div(dx * Cos(w1), 1000) - Div(dz * Sin(w1), 1000)) <= RoundOff]_vars

\* The forward vector of a frame, from the pitch and yaw the frame has just
\* computed.
Forward ==
    IF prog = "bird"
    THEN ForwardYXZ(Uncorrected.pitch, Uncorrected.yaw)
    ELSE ForwardXYZ(Uncorrected.pitch, Uncorrected.yaw, Uncorrected.roll)

\* C22 (as claimed): within one frame the position is advanced along the
\* frame's forward vector by the speed derived in that same frame, and the
\* collision query is made at the advanced position.
C22_StepOrder ==
    [][tick' = tick + 1 =>
          /\ Vec(fpos'.x, moved', fpos'.z) = Advance(fpos, Forward, speed')
          /\ groundH' = HeightFn(prog, fpos'.x, fpos'.z)
          /\ hit' <=> Collides(prog, moved', groundH')]_vars

\* C23: whenever buildTree is called it first empties the tree group and the
\* leaves array; so the tree group holds meshes of the latest call only, the
\* leaves array is as long as the tree group has leaf meshes, and a frame
\* renders the tree only when no call is under way.
C23_RebuildDiscards ==
    /\ [](prog \in SeasonProgs =>
            /\ leaves = leafMeshes
            /\ (segments + leafMeshes > 0) => oldest = builds
            /\ drawn => ~Running)
    /\ [][(prog \in SeasonProgs /\ builds' = builds + 1)
            => /\ segments' = 0
               /\ leafMeshes' = 0
               /\ leaves' = 0
               /\ Len(stack') = 1]_vars
    /\ [][(prog \in SeasonProgs /\ drawn' /\ ~drawn)
            => (~Running /\ UNCHANGED <<stack, treeGroup, leaves>>)]_vars

\* C23 witness: a season program has rebuilt its tree through setSeason, the
\* second tree is complete, has leaves, and a frame has rendered it.
C23_Witness ==
    /\ prog \in SeasonProgs
    /\ builds = 2
    /\ Built
    /\ drawn
    /\ leaves > 0
    /\ leaves = leafMeshes
    /\ oldest = 2

\* y of the base of the cone of instance slot t: the cone's geometry spans
\* half its height either side of the instance's origin and is scaled about
\* that origin.
ConeBase(p, t) == t.y - Div(t.s * BaseOffset(p), 1000)

\* C24 (as claimed): the base of every accepted instance of the bird's and
\* the condor's scatter loops is on the terrain: position.y - s * H / 2 is
\* the height function's value at the instance's (x, z).
C24_BaseOnTerrain ==
    prog \in {"bird", "condor"} =>
        \A k \in TreeSlots :
            ConeBase(prog, forest[k]) = HeightFn(prog, forest[k].x, forest[k].z)

\* The clearance each collision test keeps: 2 in Bird.update, 10 in the
\* condor's animate.
Clearance(p) == IF p = "bird" THEN 2000 ELSE 10000

\* C25: at the end of every frame the body is at least the clearance above
\* the obstruction at the point it is over: position.y >=
\* max(getTerrainHeight(x, z), waterLevel) + 2 in the bird and position.y >=
\* getAltitude(x, z) + 10 in the condor.
C25_Clearance ==
    (prog \in FlightProgs /\ tick > 0) =>
        fpos.y >= Obstruction(prog, HeightFn(prog, fpos.x, fpos.z)) + Clearance(prog)

\* C25 witness: the condor's move took it below the ground and the frame
\* ended with it 10 above the ground at that point.
C25_Witness ==
    /\ prog = "condor"
    /\ hit
    /\ moved < groundH
    /\ groundH = getAltitude(fpos.x, fpos.z)
    /\ fpos.y = groundH + 10000

\* v lies between a and b, ends included.
Between(a, v, b) == (a <= v /\ v <= b) \/ (b <= v /\ v <= a)

\* C26: from pitch = roll = 0 and with inputs in [-1, 1], |pitch| <= 0.8 and
\* |roll| <= 1.0 after every frame, collision frames included; and a
\* smoothing step leaves pitch (roll) between its old value and its target
\* 0.8 * input.y (-input.x), nearer to the target whenever it was at least a
\* hundredth (a fiftieth) away from it, and never beyond the target.
C26_AnglesBounded ==
    /\ [](prog \in FlightProgs => (Abs(pitch) <= 800 /\ Abs(roll) <= 1000))
    /\ [][tick' = tick + 1 =>
            LET tp == Div(input.y * 8, 10)
                tr == -input.x
            IN  /\ Between(roll, roll', tr)
                /\ Abs(tr - roll) >= 20 => Abs(tr - roll') < Abs(tr - roll)
                /\ ~hit' => /\ Between(pitch, pitch', tp)
                            /\ Abs(tp - pitch) >= 10 => Abs(tp - pitch') < Abs(tp - pitch)]_vars

\* C26 witness: the bird, banked almost fully under a held input and diving,
\* has just been bounced to pitch 0.5.
C26_Witness ==
    /\ prog = "bird"
    /\ hit
    /\ pitch = 500
    /\ input.y = -1000
    /\ Abs(roll) > 900

\* The flight state of the run itself, as one value.
Own == FlightRec(fpos, pitch, yaw, roll, speed)

\* C27: two runs of the frame function that start from states differing in
\* roll only and receive the same inputs have the same position, pitch, yaw
\* and speed after every frame, in both programs.
C27_RollInert ==
    /\ [](prog \in FlightProgs =>
            /\ twin.pos = fpos
            /\ twin.pitch = pitch
            /\ twin.yaw = yaw
            /\ twin.speed = speed)
    /\ [][tick' = tick + 1 => Own' = FrameOf(prog, Own, input)]_vars

\* C27 witness: forty frames into a run of the condor the two runs still
\* differ in roll, and the body has turned and banked.
C27_Witness ==
    /\ prog = "condor"
    /\ tick > 40
    /\ twin.roll # roll
    /\ roll # 0
    /\ yaw # 0
    /\ twin.pos = fpos

\* C28 (as claimed): at the end of every frame the rendered body is where
\* the flight state is and has its pitch, collision frames included.
C28_MeshFollowsState ==
    (prog \in FlightProgs /\ tick > 0) => (meshPos = fpos /\ meshPitch = pitch)

\* C29: in the generators with two children per call (createBranch and
\* createTwistedBranch) a run of starting depth d leaves exactly 2^d - 1
\* segments and 2^d leaf clusters, and createBranch leafDensity * 2^d leaf
\* meshes, whatever Math.random() draws.
C29_BinaryCounts ==
    (prog \in {"patagonia", "bariloche"} /\ Built) =>
        /\ segments = Pow(2, maxDepth) - 1
        /\ clusters = Pow(2, maxDepth)
        /\ prog = "patagonia" => leafMeshes = leafDensity(prog) * Pow(2, maxDepth)

\* C29 witness: createBranch has run at its configured depth 7.
C29_Witness ==
    /\ prog = "patagonia"
    /\ Built
    /\ maxDepth = ConfigDepth(prog)
    /\ segments = 127
    /\ clusters = 128
    /\ leafMeshes = 768

\* A session of a season program as it is configured: the tree is built at
\* CONFIG.maxDepth.
Configured == prog \in SeasonProgs /\ maxDepth = ConfigDepth(prog)

====
